---- MODULE Spec2Model ----
(***************************************************************************)
(* Model of the Zenoh inference service of src/python/inference_service.py *)
(* (coroutine main and the backend placeholder process_inference).         *)
(*                                                                         *)
(* main opens a session, declares a liveliness token and a queryable, and  *)
(* then serves the queries of the queryable one after the other.  Every    *)
(* call into the transport, the codec or the backend either returns or     *)
(* raises; main holds no try/except, so a raised exception leaves the      *)
(* query loop and the `async with` block, which closes the session.        *)
(* The environment delivers queries to the declared queryable and may      *)
(* close the transport connection at any time.                             *)
(*                                                                         *)
(* The second program, src/zimage/inference_service.py, opens a session,   *)
(* calls its image-generation backend process_inference once and closes    *)
(* the session in a finally clause.  A behaviour of the model is a run of  *)
(* one of the two programs.                                                *)
(*                                                                         *)
(* The file is read as the control flow it writes down.  Python rejects    *)
(* line 31 as it stands (`0xfb_offset` is no literal), so the module does  *)
(* not load; the model takes line 31 as the call of the generated root     *)
(* accessor at the buffer's offset, and every library call of lines 15-55  *)
(* as a call that returns or raises.                                       *)
(***************************************************************************)
EXTENDS Integers, Sequences, FiniteSets, TLC

\* Number of queries the environment sends (bound of the model).
NumQueries == 2

Queries == 1..NumQueries

\* Values of the model field carried by requests.
Models == {"qwen3vl", "zimage"}

Prompts == {"describe this image"}

\* A string field that the buffer does not hold: the accessor returns None.
NoField == "<None>"

\* A string field whose bytes are not valid UTF-8.
BadUtf8 == "<invalid utf-8>"

ImageData == "<512 bytes>"

\* The value of a local of main that was never assigned.
Unset == "<unset>"

\* The payload of a query that was not sent yet.
NoPayload == [bytes |-> "unset", model |-> Unset, prompt |-> Unset,
              image_data |-> Unset]

\* The local `encoded` before its first assignment.
NoResponse == [result_data |-> Unset, metadata |-> Unset]

EmptyPayload == [bytes |-> "empty", model |-> NoField, prompt |-> NoField,
                 image_data |-> ""]

TruncatedPayload == [bytes |-> "truncated", model |-> NoField,
                     prompt |-> NoField, image_data |-> ""]

TablePayloads == [bytes : {"table"}, model : Models \cup {BadUtf8},
                  prompt : Prompts \cup {NoField}, image_data : {ImageData}]

\* The byte buffers a caller may put in a query.
Payloads == {EmptyPayload, TruncatedPayload} \cup TablePayloads

VARIABLES
    pc,           \* position of main
    conn,         \* the session's connection: "none", "open", "dead", "closed"
    liveliness,   \* the liveliness token was declared (line 17)
    queryable,    \* the queryable was declared (line 20)
    exc,          \* the exception that left main, "none" when there is none
    channel,      \* queries delivered to the queryable, not yet taken by main
    payload,      \* payload of every query sent so far
    qstate,       \* how far the dispatch of every query got
    query,        \* local `query` of main (0: not assigned)
    model,        \* local `model`
    prompt,       \* local `prompt`
    image_data,   \* local `image_data`
    result_data,  \* local `result_data`
    encoded,      \* local `encoded`
    replies,      \* the replies sent on every query, in order
    calls,        \* the calls of process_inference made so far, in order
    arrivedDuring,\* the query main was serving when a query arrived (0: none)
    diedInFlight, \* the query main was serving when the transport closed
    ops,          \* the operations carried out on the session, in order
    zargs,        \* zimage: the arguments of the call of process_inference
    zseed,        \* zimage: local `seed` of process_inference
    zgen,         \* zimage: how `generator` was seeded, and with what
    zreported,    \* zimage: the seed printed at line 123
    zret,         \* zimage: the value process_inference returned
    codecR,       \* codec: the Response given to the encoder
    codecBuf,     \* codec: the buffer the encoder produced
    codecOut      \* codec: the Response decoded from the buffer

vars == <<pc, conn, liveliness, queryable, exc, channel, payload, qstate,
          query, model, prompt, image_data, result_data, encoded, replies,
          calls, arrivedDuring, diedInFlight, ops,
          zargs, zseed, zgen, zreported, zret, codecR, codecBuf, codecOut>>

session == <<conn, liveliness, queryable>>
locals == <<query, model, prompt, image_data, result_data, encoded>>
ghosts == <<arrivedDuring, diedInFlight>>
service == <<liveliness, queryable, channel, payload, qstate, locals,
             replies, calls, ghosts>>
zimage == <<zargs, zseed, zgen, zreported, zret>>
codec == <<codecR, codecBuf, codecOut>>

\* The key expressions of lines 17, 20 and 55.
ServiceName == "forge/services/qwen3vl"
EndpointSelector == "forge/inference/qwen"

\* An operation on the session: what was called, on which key expression,
\* for which query (0: for none).
Op(o, k, q) == [op |-> o, key |-> k, query |-> q]

\* Positions of main between taking a query and sending its reply.
InFlight == {"parse", "infer", "encode", "reply"}

\* The advertisement is visible to callers.
AdvertisementActive == liveliness /\ conn = "open"

\* The listener of the endpoint selector is registered and can get queries.
ListenerRegistered == queryable /\ conn = "open"

(***************************************************************************)
(* Values of the image-generation program.                                 *)
(***************************************************************************)

\* Seeds a caller passes: 0 asks for a random seed, 42 is the demo's.
ZSeeds == {0, 42}

\* Output formats a caller passes: "png" is the demo's.
ZFormats == {"png", "jpg"}

\* Values generator.seed() may draw.
RandomSeeds == {7, 9}

\* No seed: the value of a seed that was not assigned or printed.
NoSeed == -1

ZArgs == [seed : ZSeeds, output_format : ZFormats]

\* The arguments before any call (a run of the query service).
NoArgs == [seed |-> NoSeed, output_format |-> Unset]

\* The generator before line 116.
NoGenerator == [seeded |-> "no", seed |-> NoSeed]

\* Line 166: the value returned when the call failed.
ErrorPath == "/tmp/error.png"

\* Lines 140-147 and 160: the path of the saved image (TAG: the time tag).
OutputPath(fmt) == "output/TAG/zimage_TAG." \o fmt

(***************************************************************************)
(* Pure functions of the service.                                          *)
(***************************************************************************)

\* DecodeRequest with the model of the service's own name in place of the
\* model field of the request.
DecodeRequest_fixedModel(p) ==
    IF p.bytes # "table" \/ p.prompt \in {NoField, BadUtf8}
                         \/ p.model \in {NoField, BadUtf8}
    THEN [ok |-> FALSE, model |-> Unset, prompt |-> Unset, image_data |-> Unset]
    ELSE [ok |-> TRUE, model |-> "qwen3vl", prompt |-> p.prompt,
          image_data |-> p.image_data]

\* Lines 31-34: parse the buffer and decode prompt, then model.  A buffer
\* that is no table makes the accessors raise; an absent string field is
\* None, and None.decode raises; bytes that are no UTF-8 make decode raise.
DecodeRequest(p) ==
    IF p.bytes # "table" \/ p.prompt \in {NoField, BadUtf8}
                         \/ p.model \in {NoField, BadUtf8}
    THEN [ok |-> FALSE, model |-> Unset, prompt |-> Unset, image_data |-> Unset]
    ELSE [ok |-> TRUE, model |-> p.model, prompt |-> p.prompt,
          image_data |-> p.image_data]

\* Lines 57-64: the value the backend placeholder returns.
process_inference(img, pr, m) == "simulated_result_image_data"

\* Metadata without the blanks that line 46 writes.
Metadata_compact(m) == "{\"model\":\"" \o m \o "\",\"status\":\"success\"}"

\* Line 46: the metadata string of a reply.
Metadata(m) == "{\"model\": \"" \o m \o "\", \"status\": \"success\"}"

\* Lines 42-52: the response built from the locals result_data and model.
EncodeResponse(rd, m) == [result_data |-> rd, metadata |-> Metadata(m)]

(***************************************************************************)
(* The Response buffer, byte by byte.  The builder of lines 42-52 writes   *)
(* each object in front of what it wrote before and names an object by     *)
(* its distance from the end of the buffer.                                *)
(***************************************************************************)

\* Longest result_data and metadata of the codec's inputs (bound).
MaxLen == 2

\* Byte values; 0 is also the terminator that CreateString appends.
Bytes == {0, 1}

ByteStrings == UNION {[1..n -> Bytes] : n \in 0..MaxLen}

\* The Responses given to the encoder.
Responses == [result_data : ByteStrings, metadata : ByteStrings]

\* No Response decoded yet.
NoDecoded == [result_data |-> <<2>>, metadata |-> <<2>>]

\* Line 45: a byte vector is its length and its bytes.
CreateByteVector(buf, bytes) == (<<Len(bytes)>> \o bytes) \o buf

\* Line 46: a string is its length, its bytes and a terminating 0.
CreateString(buf, str) == (<<Len(str)>> \o str \o <<0>>) \o buf

\* EncodeBuffer with the two offsets stored in each other's field.
EncodeBuffer_swapped(rd, md) ==
    LET b1 == CreateByteVector(<<>>, rd)
        b2 == CreateString(b1, md)
        b3 == <<Len(b2), Len(b1)>> \o b2
    IN  <<Len(b3)>> \o b3

\* Lines 42-52: the vector, the string, the table of the two offsets
\* (result_data, then metadata) and, by Finish, the offset of the table.
EncodeBuffer(rd, md) ==
    LET b1 == CreateByteVector(<<>>, rd)
        b2 == CreateString(b1, md)
        b3 == <<Len(b1), Len(b2)>> \o b2
    IN  <<Len(b3)>> \o b3

\* The index in buf of the object at distance off from the end.
At(buf, off) == Len(buf) - off + 1

\* The length-prefixed bytes that start at index i of buf.
Prefixed(buf, i) == SubSeq(buf, i + 1, i + buf[i])

\* The Response-decoding counterpart: follow the root offset to the table
\* and the table's offsets to the vector and the string.
DecodeBuffer(buf) ==
    LET t == At(buf, buf[1]) IN
    [result_data |-> Prefixed(buf, At(buf, buf[t])),
     metadata |-> Prefixed(buf, At(buf, buf[t + 1]))]

(***************************************************************************)
(* Initial state: main was not started, no query was sent.                 *)
(***************************************************************************)
\* Nothing has run yet.
Idle ==
    /\ zseed = NoSeed
    /\ zgen = NoGenerator
    /\ zreported = NoSeed
    /\ zret = Unset
    /\ conn = "none"
    /\ liveliness = FALSE
    /\ queryable = FALSE
    /\ exc = "none"
    /\ channel = <<>>
    /\ payload = [q \in Queries |-> NoPayload]
    /\ qstate = [q \in Queries |-> "Idle"]
    /\ query = 0
    /\ model = Unset
    /\ prompt = Unset
    /\ image_data = Unset
    /\ result_data = Unset
    /\ encoded = NoResponse
    /\ replies = [q \in Queries |-> <<>>]
    /\ calls = <<>>
    /\ arrivedDuring = [q \in Queries |-> 0]
    /\ diedInFlight = 0
    /\ ops = <<>>

\* A run of the query service or of the image-generation program.
Init ==
    /\ \/ pc = "start" /\ zargs = NoArgs
       \/ pc = "zstart" /\ zargs \in ZArgs
    /\ Idle
    /\ codecR = [result_data |-> <<>>, metadata |-> <<>>]
    /\ codecBuf = <<>>
    /\ codecOut = NoDecoded

\* Raise without the exit of `async with`: the session stays as it is.
Raise_noClose(e) ==
    /\ pc' = "exited"
    /\ exc' = e
    /\ conn' = conn
    /\ ops' = ops

\* An exception e leaves main: it passes through `async with` (line 15),
\* whose exit closes the session, and ends the coroutine.
Raise(e) ==
    /\ pc' = "exited"
    /\ exc' = e
    /\ conn' = IF conn = "none" THEN "none" ELSE "closed"
    /\ ops' = IF conn = "none" THEN ops ELSE Append(ops, Op("close", "", 0))

(***************************************************************************)
(* Start of the session, lines 15-22.                                      *)
(***************************************************************************)

\* Open that goes on to the declarations after zenoh.open raised.
Open_continue ==
    /\ UNCHANGED <<zimage, codec>>
    /\ pc = "start"
    /\ \/ /\ pc' = "opened" /\ conn' = "open" /\ exc' = exc
          /\ ops' = Append(ops, Op("open", "", 0))
       \/ /\ pc' = "opened" /\ conn' = conn /\ exc' = "ConnectError"
          /\ ops' = ops
    /\ UNCHANGED <<liveliness, queryable, channel, payload, qstate, locals,
                   replies, calls, ghosts>>

\* Line 15: zenoh.open returns the session or raises.
Open ==
    /\ UNCHANGED <<zimage, codec>>
    /\ pc = "start"
    /\ \/ /\ pc' = "opened" /\ conn' = "open" /\ exc' = exc
          /\ ops' = Append(ops, Op("open", "", 0))
       \/ Raise("ConnectError")
    /\ UNCHANGED <<liveliness, queryable, channel, payload, qstate, locals,
                   replies, calls, ghosts>>

\* DeclareToken that declares the token a second time.
DeclareToken_twice ==
    /\ UNCHANGED <<zimage, codec>>
    /\ pc = "opened"
    /\ \/ /\ conn = "open"
          /\ liveliness' = TRUE
          /\ ops' = ops \o <<Op("declare_token", ServiceName, 0),
                              Op("declare_token", ServiceName, 0)>>
          /\ pc' = "token"
          /\ UNCHANGED <<conn, exc>>
       \/ Raise("DeclareError") /\ UNCHANGED liveliness
    /\ UNCHANGED <<queryable, channel, payload, qstate, locals, replies,
                   calls, ghosts>>

\* Line 17: declare the liveliness token.
DeclareToken ==
    /\ UNCHANGED <<zimage, codec>>
    /\ pc = "opened"
    /\ \/ /\ conn = "open"
          /\ liveliness' = TRUE
          /\ ops' = Append(ops, Op("declare_token", ServiceName, 0))
          /\ pc' = "token"
          /\ UNCHANGED <<conn, exc>>
       \/ Raise("DeclareError") /\ UNCHANGED liveliness
    /\ UNCHANGED <<queryable, channel, payload, qstate, locals, replies,
                   calls, ghosts>>

\* Line 20: declare the queryable; line 22 prints; the loop starts.
DeclareQueryable ==
    /\ UNCHANGED <<zimage, codec>>
    /\ pc = "token"
    /\ \/ /\ conn = "open"
          /\ queryable' = TRUE
          /\ ops' = Append(ops, Op("declare_queryable", EndpointSelector, 0))
          /\ pc' = "loop"
          /\ UNCHANGED <<conn, exc>>
       \/ Raise("DeclareError") /\ UNCHANGED queryable
    /\ UNCHANGED <<liveliness, channel, payload, qstate, locals, replies,
                   calls, ghosts>>

(***************************************************************************)
(* The query loop, lines 24-55.                                            *)
(***************************************************************************)

\* NextQuery that takes the query that arrived last.
NextQuery_lifo ==
    /\ UNCHANGED <<zimage, codec>>
    /\ pc = "loop"
    /\ channel # <<>>
    /\ LET q == channel[Len(channel)] IN
        /\ query' = q
        /\ channel' = SubSeq(channel, 1, Len(channel) - 1)
        /\ IF payload[q].bytes = "empty"
           THEN /\ qstate' = [qstate EXCEPT ![q] = "Skipped"]
                /\ pc' = "loop"
           ELSE /\ qstate' = [qstate EXCEPT ![q] = "Received"]
                /\ pc' = "parse"
    /\ UNCHANGED <<session, exc, payload, model, prompt, image_data,
                   result_data, encoded, replies, calls, ghosts, ops>>

\* Lines 24-28: take the next query; a query without payload is skipped.
NextQuery ==
    /\ UNCHANGED <<zimage, codec>>
    /\ pc = "loop"
    /\ channel # <<>>
    /\ LET q == Head(channel) IN
        /\ query' = q
        /\ channel' = Tail(channel)
        /\ IF payload[q].bytes = "empty"
           THEN /\ qstate' = [qstate EXCEPT ![q] = "Skipped"]
                /\ pc' = "loop"
           ELSE /\ qstate' = [qstate EXCEPT ![q] = "Received"]
                /\ pc' = "parse"
    /\ UNCHANGED <<session, exc, payload, model, prompt, image_data,
                   result_data, encoded, replies, calls, ghosts, ops>>

\* Parse that goes on to build the response without the backend call.
Parse_skipBackend ==
    /\ UNCHANGED <<zimage, codec>>
    /\ pc = "parse"
    /\ LET r == DecodeRequest(payload[query]) IN
        IF r.ok
        THEN /\ model' = r.model
             /\ prompt' = r.prompt
             /\ image_data' = r.image_data
             /\ qstate' = [qstate EXCEPT ![query] = "Decoded"]
             /\ pc' = "encode"
             /\ UNCHANGED <<conn, exc, ops>>
        ELSE /\ Raise("DecodeError")
             /\ qstate' = [qstate EXCEPT ![query] = "DecodeRaised"]
             /\ UNCHANGED <<model, prompt, image_data>>
    /\ UNCHANGED <<liveliness, queryable, channel, payload, query,
                   result_data, encoded, replies, calls, ghosts>>

\* Lines 31-36: decode the request into the locals, or raise.
Parse ==
    /\ UNCHANGED <<zimage, codec>>
    /\ pc = "parse"
    /\ LET r == DecodeRequest(payload[query]) IN
        IF r.ok
        THEN /\ model' = r.model
             /\ prompt' = r.prompt
             /\ image_data' = r.image_data
             /\ qstate' = [qstate EXCEPT ![query] = "Decoded"]
             /\ pc' = "infer"
             /\ UNCHANGED <<conn, exc, ops>>
        ELSE /\ Raise("DecodeError")
             /\ qstate' = [qstate EXCEPT ![query] = "DecodeRaised"]
             /\ UNCHANGED <<model, prompt, image_data>>
    /\ UNCHANGED <<liveliness, queryable, channel, payload, query,
                   result_data, encoded, replies, calls, ghosts>>

\* Line 39: await process_inference; the awaited call returns its result or
\* an exception is raised at the await.
Infer ==
    /\ UNCHANGED <<zimage, codec>>
    /\ pc = "infer"
    /\ \/ /\ result_data' = process_inference(image_data, prompt, model)
          /\ calls' = Append(calls,
                 [query |-> query, image_data |-> image_data,
                  prompt |-> prompt, model |-> model,
                  result |-> process_inference(image_data, prompt, model)])
          /\ qstate' = [qstate EXCEPT ![query] = "Inferred"]
          /\ pc' = "encode"
          /\ UNCHANGED <<conn, exc, ops>>
       \/ /\ Raise("InferenceError")
          /\ qstate' = [qstate EXCEPT ![query] = "InferRaised"]
          /\ UNCHANGED <<result_data, calls>>
    /\ UNCHANGED <<liveliness, queryable, channel, payload, query, model,
                   prompt, image_data, encoded, replies, ghosts>>

\* Lines 42-52: build the response buffer, or a builder call raises (the
\* names flatbuffers and Inferencer that lines 42-43 use are bound by no
\* import of lines 5-11, so the calls raise NameError unless the generated
\* modules provide them).
Encode ==
    /\ UNCHANGED <<zimage, codec>>
    /\ pc = "encode"
    /\ \/ /\ encoded' = EncodeResponse(result_data, model)
          /\ pc' = "reply"
          /\ UNCHANGED <<conn, exc, qstate, ops>>
       \/ /\ Raise("EncodeError")
          /\ qstate' = [qstate EXCEPT ![query] = "EncodeRaised"]
          /\ UNCHANGED encoded
    /\ UNCHANGED <<liveliness, queryable, channel, payload, query, model,
                   prompt, image_data, result_data, replies, calls, ghosts>>

\* Line 55: await query.reply; the reply is sent, or the send fails and the
\* exception leaves main.  On a connection that is not open the send fails.
Reply ==
    /\ UNCHANGED <<zimage, codec>>
    /\ pc = "reply"
    /\ \/ /\ conn = "open"
          /\ replies' = [replies EXCEPT ![query] = Append(@, encoded)]
          /\ qstate' = [qstate EXCEPT ![query] = "Replied"]
          /\ ops' = Append(ops, Op("reply", EndpointSelector, query))
          /\ pc' = "loop"
          /\ UNCHANGED <<conn, exc>>
       \/ /\ Raise("SendError")
          /\ qstate' = [qstate EXCEPT ![query] = "SendRaised"]
          /\ UNCHANGED replies
    /\ UNCHANGED <<liveliness, queryable, channel, payload, locals, calls,
                   ghosts>>

\* Line 24: the queryable of a closed connection yields no further query;
\* the loop ends, main returns and `async with` closes the session.
LoopEnd ==
    /\ UNCHANGED <<zimage, codec>>
    /\ pc = "loop"
    /\ channel = <<>>
    /\ conn = "dead"
    /\ pc' = "exited"
    /\ conn' = "closed"
    /\ ops' = Append(ops, Op("close", "", 0))
    /\ UNCHANGED <<liveliness, queryable, exc, channel, payload, qstate,
                   locals, replies, calls, ghosts>>

(***************************************************************************)
(* The environment.                                                        *)
(***************************************************************************)

\* A caller sends query q with payload p to the declared queryable.
\* Queries are numbered in the order in which they arrive.
Arrive(q, p) ==
    /\ UNCHANGED <<zimage, codec>>
    /\ ListenerRegistered
    /\ qstate[q] = "Idle"
    /\ \A r \in Queries : r < q => qstate[r] # "Idle"
    /\ payload' = [payload EXCEPT ![q] = p]
    /\ qstate' = [qstate EXCEPT ![q] = "Queued"]
    /\ channel' = Append(channel, q)
    /\ arrivedDuring' = [arrivedDuring EXCEPT
                            ![q] = IF pc \in InFlight THEN query ELSE 0]
    /\ UNCHANGED <<pc, session, exc, locals, replies, calls, diedInFlight,
                   ops>>

\* The transport connection closes under the running service.
TransportClose ==
    /\ UNCHANGED <<zimage, codec>>
    /\ conn = "open"
    /\ conn' = "dead"
    /\ diedInFlight' = IF pc \in InFlight THEN query ELSE diedInFlight
    /\ UNCHANGED <<pc, liveliness, queryable, exc, channel, payload, qstate,
                   locals, replies, calls, arrivedDuring, ops>>

(***************************************************************************)
(* The image-generation program, src/zimage/inference_service.py.          *)
(***************************************************************************)

\* zimage line 13: zenoh.open returns the session or raises; the call is
\* outside the try block, so the exception leaves main.
ZOpen ==
    /\ pc = "zstart"
    /\ \/ /\ pc' = "z_call" /\ conn' = "open" /\ exc' = exc
          /\ ops' = Append(ops, Op("open", "", 0))
       \/ Raise("ConnectError")
    /\ UNCHANGED <<service, zimage, codec>>

\* zimage lines 15-23 and 31: main calls process_inference.
ZCall ==
    /\ UNCHANGED codec
    /\ pc = "z_call"
    /\ zseed' = zargs.seed
    /\ pc' = "z_setup"
    /\ UNCHANGED <<conn, exc, ops, service, zargs, zgen, zreported, zret>>

\* zimage lines 162-166 with the exception raised again after the report.
ZFail_reraise ==
    /\ zret' = zret
    /\ pc' = "z_returned"
    /\ exc' = "InferenceError"

\* zimage lines 162-166: an exception raised inside the try block of
\* process_inference is caught and the call returns the error path.
ZFail ==
    /\ zret' = ErrorPath
    /\ pc' = "z_returned"
    /\ exc' = exc

\* zimage lines 35-113: imports, device, pipeline and optimisations (the
\* failures of lines 96-111 are caught in place).
ZSetup ==
    /\ UNCHANGED codec
    /\ pc = "z_setup"
    /\ \/ pc' = "z_generator" /\ zret' = zret /\ exc' = exc
       \/ ZFail
    /\ UNCHANGED <<conn, ops, service, zargs, zseed, zgen, zreported>>

\* ZGenerator without the test for seed 0: every seed is set by hand.
ZGenerator_manualOnly ==
    /\ UNCHANGED codec
    /\ pc = "z_generator"
    /\ \/ /\ zgen' = [seeded |-> "manual", seed |-> zseed]
          /\ zseed' = zseed
          /\ zreported' = zseed'
          /\ pc' = "z_generate"
          /\ zret' = zret
          /\ exc' = exc
       \/ ZFail /\ UNCHANGED <<zseed, zgen, zreported>>
    /\ UNCHANGED <<conn, ops, service, zargs>>

\* zimage lines 116-123: seed the generator and print the parameters.
ZGenerator ==
    /\ UNCHANGED codec
    /\ pc = "z_generator"
    /\ \/ /\ IF zseed = 0
             THEN \E r \in RandomSeeds :
                     /\ zgen' = [seeded |-> "random", seed |-> r]
                     /\ zseed' = r
             ELSE /\ zgen' = [seeded |-> "manual", seed |-> zseed]
                  /\ zseed' = zseed
          /\ zreported' = zseed'
          /\ pc' = "z_generate"
          /\ zret' = zret
          /\ exc' = exc
       \/ ZFail /\ UNCHANGED <<zseed, zgen, zreported>>
    /\ UNCHANGED <<conn, ops, service, zargs>>

\* zimage lines 126-134: run the pipeline.
ZGenerate ==
    /\ UNCHANGED codec
    /\ pc = "z_generate"
    /\ \/ pc' = "z_save" /\ zret' = zret /\ exc' = exc
       \/ ZFail
    /\ UNCHANGED <<conn, ops, service, zargs, zseed, zgen, zreported>>

\* zimage lines 137-160: save the image and return its path.
ZSave ==
    /\ UNCHANGED codec
    /\ pc = "z_save"
    /\ \/ /\ zret' = OutputPath(zargs.output_format)
          /\ pc' = "z_returned"
          /\ exc' = exc
       \/ ZFail
    /\ UNCHANGED <<conn, ops, service, zargs, zseed, zgen, zreported>>

\* zimage lines 24-29: main prints the result; finally closes the session.
ZFinish ==
    /\ pc = "z_returned"
    /\ pc' = "exited"
    /\ conn' = "closed"
    /\ ops' = Append(ops, Op("close", "", 0))
    /\ UNCHANGED <<exc, service, zimage, codec>>

ZMain ==
    \/ ZOpen
    \/ ZCall
    \/ ZSetup
    \/ ZGenerator
    \/ ZGenerate
    \/ ZSave
    \/ ZFinish

(***************************************************************************)
(* The codec applied to a Response: encode, then decode.                   *)
(***************************************************************************)

CodecInit ==
    /\ pc = "codec"
    /\ zargs = NoArgs
    /\ Idle
    /\ codecR \in Responses
    /\ codecBuf = <<>>
    /\ codecOut = NoDecoded

CodecEncode ==
    /\ pc = "codec"
    /\ codecBuf' = EncodeBuffer(codecR.result_data, codecR.metadata)
    /\ pc' = "codec_encoded"
    /\ UNCHANGED <<conn, exc, ops, service, zimage, codecR, codecOut>>

CodecDecode ==
    /\ pc = "codec_encoded"
    /\ codecOut' = DecodeBuffer(codecBuf)
    /\ pc' = "codec_decoded"
    /\ UNCHANGED <<conn, exc, ops, service, zimage, codecR, codecBuf>>

CodecNext == CodecEncode \/ CodecDecode

CodecSpec == CodecInit /\ [][CodecNext]_vars

Main ==
    \/ Open
    \/ DeclareToken
    \/ DeclareQueryable
    \/ NextQuery
    \/ Parse
    \/ Infer
    \/ Encode
    \/ Reply
    \/ LoopEnd

Environment ==
    \/ \E q \in Queries, p \in Payloads : Arrive(q, p)
    \/ TransportClose

Next == Main \/ ZMain \/ Environment

Spec == Init /\ [][Next]_vars

\* The event loop keeps running main while it can take a step: an awaited
\* call returns or raises.
FairSpec == Spec /\ WF_vars(Main) /\ WF_vars(ZMain)

TypeOK ==
    /\ pc \in {"start", "opened", "token", "loop", "exited"} \cup InFlight
             \cup {"zstart", "z_call", "z_setup", "z_generator", "z_generate",
                   "z_save", "z_returned"}
    /\ conn \in {"none", "open", "dead", "closed"}
    /\ query \in Queries \cup {0}
    /\ \A q \in Queries : Len(replies[q]) <= 1

(***************************************************************************)
(* Vocabulary of the properties.                                           *)
(***************************************************************************)

\* The dispatch cycle of query q is over: it was skipped, replied to, or an
\* exception raised while serving it left main.
CycleEnded(q) ==
    qstate[q] \in {"Skipped", "Replied", "DecodeRaised", "InferRaised",
                   "EncodeRaised", "SendRaised"}

\* Query q was taken from the queryable by main.
Delivered(q) == qstate[q] \notin {"Idle", "Queued"}

\* A response was built for q and handed to the transport.
Responded(q) == qstate[q] \in {"Replied", "SendRaised"}

SuccessMetadata == {Metadata(m) : m \in Models}

\* r reports a failure: no result bytes and a metadata that is no success.
IsErrorResponse(r) == r.result_data = "" /\ r.metadata \notin SuccessMetadata

\* The backend was called for query q.
BackendCalled(q) == \E i \in DOMAIN calls : calls[i].query = q

\* The request that the payload of q holds.
RequestOf(q) == DecodeRequest(payload[q])

(***************************************************************************)
(* C1..C10                                                                 *)
(***************************************************************************)

\* C1: every query whose dispatch cycle has ended has received exactly one
\* reply, whichever branch was taken: never zero replies, never two.
C1_ExactlyOneReply ==
    \A q \in Queries : CycleEnded(q) => Len(replies[q]) = 1

\* C2: every query delivered to the dispatcher is eventually in a terminal
\* state in which a Response was issued for it; no query hangs and no
\* earlier failure keeps a later query from being answered.
C2_EveryQueryAnswered ==
    \A q \in Queries : Delivered(q) ~> Responded(q)

\* C3: a query whose payload cannot be decoded (an empty buffer included)
\* gets one error Response with empty result_data and a failure metadata,
\* and the backend is not called for it.
C3_DecodeFailureAnswered ==
    \A q \in Queries :
        qstate[q] \in {"Skipped", "DecodeRaised"} =>
            /\ Len(replies[q]) = 1
            /\ IsErrorResponse(replies[q][1])
            /\ ~BackendCalled(q)

\* C4: a failure of the backend call is caught in the dispatcher and
\* answered with an error Response; no exception leaves the loop and the
\* dispatcher keeps serving.
C4_BackendFailureCaught ==
    \A q \in Queries :
        qstate[q] = "InferRaised" =>
            /\ pc # "exited"
            /\ exc = "none"
            /\ Len(replies[q]) = 1
            /\ IsErrorResponse(replies[q][1])

\* C5: the advertisement is never active unless the connection is open and
\* the listener is registered.
C5_AdvertisedOnlyWhenListening ==
    AdvertisementActive => ListenerRegistered

\* C6: stop deregisters the listener, then retracts the advertisement, then
\* closes the connection: the connection is closed only when no listener
\* and no advertisement is declared on it any more.
C6_CloseAfterDeregister ==
    [][(conn # "closed" /\ conn' = "closed") => (~queryable /\ ~liveliness)]_vars

\* C7: every reply sent on a query carries the metadata of the model of
\* that query's own request and the result of the backend call made with
\* that query's own request, also when another query was waiting meanwhile.
C7_ReplyMatchesOwnQuery ==
    \A q \in Queries : \A i \in DOMAIN replies[q] :
        /\ RequestOf(q).ok
        /\ replies[q][i].metadata = Metadata(payload[q].model)
        /\ \E k \in DOMAIN calls :
            /\ calls[k].query = q
            /\ calls[k].model = payload[q].model
            /\ calls[k].prompt = payload[q].prompt
            /\ calls[k].image_data = payload[q].image_data
            /\ replies[q][i].result_data = calls[k].result

\* C7 witness: two queries with different models, the second arrived while
\* the first was being served, and both were replied to.
C7_Witness ==
    \E q1, q2 \in Queries :
        /\ arrivedDuring[q2] = q1
        /\ payload[q1].model # payload[q2].model
        /\ qstate[q1] = "Replied" /\ Len(replies[q1]) = 1
        /\ qstate[q2] = "Replied" /\ Len(replies[q2]) = 1

\* C8: a failed send of a reply does not leave the dispatcher: the loop is
\* still running and no exception escaped.
C8_SendFailureContained ==
    \A q \in Queries :
        qstate[q] = "SendRaised" => (pc # "exited" /\ exc = "none")

\* C9: when the connection closes while a query is in flight, its reply is
\* dropped locally: no send on the dead connection fails out of the
\* dispatcher.
C9_ReplyDroppedOnDeadConnection ==
    diedInFlight # 0 =>
        (qstate[diedInFlight] # "SendRaised" /\ exc # "SendError")

\* C10 as stated: a reply carries the bytes the backend returned and the
\* metadata {"model":"<model>","status":"success"} without any blank.
C10_CompactMetadata ==
    \A q \in Queries : \A i \in DOMAIN replies[q] :
        /\ \E k \in DOMAIN calls :
              calls[k].query = q /\ replies[q][i].result_data = calls[k].result
        /\ payload[q].model = "qwen3vl" =>
              replies[q][i].metadata = "{\"model\":\"qwen3vl\",\"status\":\"success\"}"
        /\ payload[q].model = "zimage" =>
              replies[q][i].metadata = "{\"model\":\"zimage\",\"status\":\"success\"}"

\* C10 amended: a reply carries the bytes the backend returned, unchanged,
\* and the metadata {"model": "<model>", "status": "success"}, with one
\* blank after each colon and after the comma.
C10_SuccessReply ==
    \A q \in Queries : \A i \in DOMAIN replies[q] :
        /\ \E k \in DOMAIN calls :
              calls[k].query = q /\ replies[q][i].result_data = calls[k].result
        /\ replies[q][i].result_data = "simulated_result_image_data"
        /\ payload[q].model = "qwen3vl" =>
              replies[q][i].metadata = "{\"model\": \"qwen3vl\", \"status\": \"success\"}"
        /\ payload[q].model = "zimage" =>
              replies[q][i].metadata = "{\"model\": \"zimage\", \"status\": \"success\"}"

\* C10 witness: a query for model qwen3vl was replied to.
C10_Witness ==
    \E q \in Queries :
        /\ payload[q].model = "qwen3vl"
        /\ qstate[q] = "Replied"
        /\ Len(replies[q]) = 1

(***************************************************************************)
(* C11..C19                                                                *)
(***************************************************************************)

C12_DecodeTotal ==
    \A q \in Queries :
        /\ qstate[q] # "DecodeRaised"
        /\ exc # "DecodeError"
        /\ qstate[q] = "Decoded" =>
              (RequestOf(q).model # "" /\ RequestOf(q).prompt # "")

\* C13: when opening the connection fails, the run ends with ConnectError:
\* nothing was opened, advertised or registered, no query was dispatched,
\* the backend was not called and no second open was tried.
C13_ConnectErrorTerminal ==
    exc = "ConnectError" =>
        /\ pc = "exited"
        /\ conn = "none"
        /\ ops = <<>>
        /\ ~liveliness /\ ~queryable
        /\ \A q \in Queries : qstate[q] = "Idle"
        /\ calls = <<>>
        /\ zret = Unset

\* C13 witness: a run ended by the failure of zenoh.open.
C13_Witness == exc = "ConnectError" /\ pc = "exited"

\* The declarations of a liveliness token for key k made so far.
TokenDeclarations(k) ==
    {i \in DOMAIN ops : ops[i].op = "declare_token" /\ ops[i].key = k}

\* C14: at most one advertisement is ever declared for the service's key,
\* and an active advertisement is that single one, whatever queries were
\* handled.
C14_OneAdvertisement ==
    /\ \A i \in DOMAIN ops : ops[i].op = "declare_token" => ops[i].key = ServiceName
    /\ Cardinality(TokenDeclarations(ServiceName)) <= 1
    /\ AdvertisementActive => Cardinality(TokenDeclarations(ServiceName)) = 1

\* C14 witness: the advertisement is active after a query was replied to.
C14_Witness ==
    AdvertisementActive /\ \E q \in Queries : qstate[q] = "Replied"

\* C15: seed 0 makes the generator draw a fresh seed, which is the one
\* reported; any other seed is set unchanged as the generator's seed.
C15_SeedZeroIsRandom ==
    zgen.seeded # "no" =>
        /\ zargs.seed = 0 =>
              /\ zgen.seeded = "random"
              /\ zgen.seed \in RandomSeeds
              /\ zreported = zgen.seed
        /\ zargs.seed # 0 =>
              /\ zgen.seeded = "manual"
              /\ zgen.seed = zargs.seed
              /\ zreported = zargs.seed

\* C15 witness: a call with seed 0 has seeded its generator.
C15_Witness == zargs.seed = 0 /\ zgen.seeded = "random" /\ zreported # NoSeed

\* The state of the spec's per-query state machine that a query is in: a
\* query is Received from its arrival at the listener until it is decoded,
\* and Failed when its cycle ended without a reply.
Phase(st) ==
    CASE st = "Idle" -> "None"
      [] st \in {"Queued", "Received"} -> "Received"
      [] st = "Decoded" -> "Decoded"
      [] st = "Inferred" -> "Inferred"
      [] st = "Replied" -> "Replied"
      [] OTHER -> "Failed"

AllowedTransitions ==
    {<<"None", "Received">>, <<"Received", "Decoded">>,
     <<"Decoded", "Inferred">>, <<"Inferred", "Replied">>,
     <<"Received", "Failed">>, <<"Decoded", "Failed">>,
     <<"Inferred", "Failed">>}

\* C16: a query moves only Received -> Decoded -> Inferred -> Replied or
\* from Received, Decoded or Inferred to Failed; Replied and Failed are
\* left by no step; the backend is called only for a decoded query and a
\* reply is sent only after the backend returned for that query.
C16_StateMachine ==
    /\ [][\A q \in Queries :
            Phase(qstate[q]) # Phase(qstate'[q]) =>
                <<Phase(qstate[q]), Phase(qstate'[q])>> \in AllowedTransitions]_vars
    /\ [](\A q \in Queries :
            /\ BackendCalled(q) =>
                  (RequestOf(q).ok
                   /\ Phase(qstate[q]) \in {"Inferred", "Replied", "Failed"})
            /\ replies[q] # <<>> =>
                  (BackendCalled(q) /\ Phase(qstate[q]) = "Replied"))

\* C16 witness: one query was replied to and another one failed.
C16_Witness ==
    \E q1, q2 \in Queries :
        /\ Phase(qstate[q1]) = "Replied" /\ replies[q1] # <<>>
        /\ Phase(qstate[q2]) = "Failed"

\* The close operations carried out on the session so far.
Closes == {i \in DOMAIN ops : ops[i].op = "close"}

\* C17: once the connection was opened, every exit of main, normal or by
\* an exception, closes it exactly once; the connection is closed by this
\* close alone and no operation follows it on the session.
C17_ClosedOnceOnExit ==
    /\ Cardinality(Closes) <= 1
    /\ \A i \in Closes : i = Len(ops)
    /\ conn = "closed" <=> Closes # {}
    /\ (pc = "exited" /\ ops # <<>>) => Cardinality(Closes) = 1

\* C17 witness: an exception left the query loop after a reply was sent
\* and the session was closed.
C17_Witness ==
    /\ pc = "exited"
    /\ exc \notin {"none", "ConnectError"}
    /\ \E i \in DOMAIN ops : ops[i].op = "reply"
    /\ ops[Len(ops)].op = "close"

\* C18: the image-generation backend never raises to its caller: it
\* returns the path of the saved image or, on a failure, "/tmp/error.png".
C18_BackendNeverRaises ==
    zargs # NoArgs =>
        /\ exc \in {"none", "ConnectError"}
        /\ pc \in {"z_setup", "z_generator", "z_generate", "z_save"} =>
              (exc = "none" /\ zret = Unset)
        /\ pc = "z_returned" =>
              /\ exc = "none"
              /\ zret \in {ErrorPath, OutputPath(zargs.output_format)}
        /\ (pc = "exited" /\ exc = "none") =>
              zret \in {ErrorPath, OutputPath(zargs.output_format)}

\* C18 witness: a call that failed inside has returned the error path.
C18_Witness == pc = "z_returned" /\ zret = "/tmp/error.png" /\ exc = "none"

\* The queries main is serving: taken from the listener, not yet done.
Serving == {q \in Queries : qstate[q] \in {"Received", "Decoded", "Inferred"}}

\* C19: the loop serves one query at a time in arrival order: at most one
\* query is in flight, a query is taken only after all earlier ones are
\* done, and replies are sent in the order of arrival.
C19_OneAtATimeInOrder ==
    /\ Cardinality(Serving) <= 1
    /\ pc \in InFlight => Serving = {query}
    /\ pc = "loop" => Serving = {}
    /\ \A q, r \in Queries :
          (r < q /\ Delivered(q)) => CycleEnded(r)
    /\ \A i, j \in DOMAIN ops :
          (i < j /\ ops[i].op = "reply" /\ ops[j].op = "reply") =>
              ops[i].query < ops[j].query

\* C19 witness: the second query arrived while the first was served, and
\* is served after the first was replied to.
C19_Witness ==
    /\ NumQueries >= 2
    /\ qstate[1] = "Replied"
    /\ arrivedDuring[2] = 1
    /\ qstate[2] = "Inferred"
====
